---- MODULE Spec2Model ----
(***************************************************************************)
(* A model of rfc3986.rs: the Uri record, Uri::from_str (the decomposer),   *)
(* Uri::generate_authority, the two scheme validators and UriBuilder.       *)
(*                                                                          *)
(* Text is a sequence of one-character strings.  Option<T> is a sequence    *)
(* of length 0 (None) or 1 (Some(x)).  A call that panics yields the        *)
(* outcome [kind |-> "panic", ...]; a call that returns yields              *)
(* [kind |-> "ok", ...].  The code has no other way to end a call.          *)
(***************************************************************************)
EXTENDS Integers, Sequences, FiniteSets, TLC

VARIABLES
    text,        \* the &str handed to Uri::from_str
    result,      \* outcome of the latest Uri::from_str call, NotCalled before it
    uri,         \* Option<Uri>: the record at hand (self of the Uri methods)
    authority,   \* Option<String>: what generate_authority returned
    netpath,     \* outcome of Uri::from_str("//" + text), NotCalled before it
    allowed,     \* argument of the latest validate_scheme_one_of call
    validation,  \* outcome of the latest validator call, NotCalled before it
    builder,     \* the UriBuilder's fields
    calls,       \* the calls made on the UriBuilder so far, oldest first
    built        \* Option<Uri>: what the latest finalize returned

vars == <<text, result, uri, authority, netpath, allowed, validation,
          builder, calls, built>>

(***************************************************************************)
(* Bounds of the model.                                                     *)
(***************************************************************************)
MaxTokens == 4
MaxPartLen == 2
MaxUserLen == 2
MaxHostLen == 2
MaxSchemeLen == 2
MaxCalls == 3
MaxPairs == 3

U16Max == 65535

(***************************************************************************)
(* Option<T> and outcomes.                                                  *)
(***************************************************************************)
None == <<>>

Some(x) == <<x>>

IsSome(o) == Len(o) = 1

NotCalled == [kind |-> "none"]

\* no validator was called yet
NotValidated == [by |-> "none", out |-> NotCalled]

Panic(why) == [kind |-> "panic", why |-> why]

Ok(value) == [kind |-> "ok", value |-> value]

(***************************************************************************)
(* Text helpers: the str methods the code uses.                             *)
(***************************************************************************)
RECURSIVE Concat(_)
Concat(parts) ==
    IF parts = <<>> THEN <<>> ELSE Head(parts) \o Concat(Tail(parts))

RECURSIVE StrsUpTo(_, _)
StrsUpTo(chars, n) ==
    IF n = 0 THEN {<<>>}
    ELSE LET shorter == StrsUpTo(chars, n - 1)
         IN  shorter \cup {Append(s, c) : s \in shorter, c \in chars}

\* pat occurs in s at index i
MatchesAt(s, pat, i) ==
    /\ i + Len(pat) - 1 <= Len(s)
    /\ \A k \in 1..Len(pat) : s[i + k - 1] = pat[k]

\* str::contains
Contains(s, pat) == \E i \in 1..Len(s) : MatchesAt(s, pat, i)

\* index of the first occurrence of pat in s (s contains pat)
FirstIndex(s, pat) ==
    CHOOSE i \in 1..Len(s) :
        MatchesAt(s, pat, i) /\ \A j \in 1..(i - 1) : ~MatchesAt(s, pat, j)

\* index of the last occurrence of pat in s (s contains pat)
LastIndex(s, pat) ==
    CHOOSE i \in 1..Len(s) :
        MatchesAt(s, pat, i) /\ \A j \in (i + 1)..Len(s) : ~MatchesAt(s, pat, j)

\* str::starts_with
StartsWith(s, pat) == MatchesAt(s, pat, 1)

\* s[n..]
DropFirst(s, n) == SubSeq(s, n + 1, Len(s))

\* s.splitn(2, pat).collect(): one part when pat does not occur
SplitN2(s, pat) ==
    IF Contains(s, pat)
    THEN LET i == FirstIndex(s, pat)
         IN  <<SubSeq(s, 1, i - 1), SubSeq(s, i + Len(pat), Len(s))>>
    ELSE <<s>>

\* s.rsplitn(2, pat).collect(): the part after the last pat comes first
RSplitN2(s, pat) ==
    IF Contains(s, pat)
    THEN LET i == LastIndex(s, pat)
         IN  <<SubSeq(s, i + Len(pat), Len(s)), SubSeq(s, 1, i - 1)>>
    ELSE <<s>>

Digits == <<"0", "1", "2", "3", "4", "5", "6", "7", "8", "9">>

IsDigit(c) == \E d \in 1..10 : Digits[d] = c

DigitValue(c) == (CHOOSE d \in 1..10 : Digits[d] = c) - 1

\* the value of a run of decimal digits, accumulated left to right as the
\* checked arithmetic of the parser does: once past U16Max it stays there
RECURSIVE DecimalValue(_)
DecimalValue(ds) ==
    IF ds = <<>> THEN 0
    ELSE LET sofar == DecimalValue(SubSeq(ds, 1, Len(ds) - 1))
         IN  IF sofar > U16Max THEN sofar
             ELSE 10 * sofar + DigitValue(ds[Len(ds)])

\* str::parse::<u16>: an optional '+', then one or more decimal digits whose
\* value fits 16 unsigned bits; Ok(n) or Err
ParseU16(s) ==
    LET ds == IF Len(s) > 1 /\ s[1] = "+" THEN Tail(s) ELSE s
    IN  IF ds = <<>> \/ \E k \in 1..Len(ds) : ~IsDigit(ds[k])
        THEN [ok |-> FALSE]
        ELSE IF DecimalValue(ds) > U16Max
             THEN [ok |-> FALSE]
             ELSE [ok |-> TRUE, value |-> DecimalValue(ds)]

\* format!("{}", n) for an unsigned integer
RECURSIVE FormatU16(_)
FormatU16(n) ==
    IF n < 10 THEN <<Digits[n + 1]>>
    ELSE FormatU16(n \div 10) \o <<Digits[(n % 10) + 1]>>

(***************************************************************************)
(* The Uri record.                                                          *)
(***************************************************************************)
Uri(scheme, userinfo, host, port, path, query, fragment) ==
    [scheme |-> scheme, userinfo |-> userinfo, host |-> host, port |-> port,
     path |-> path, query |-> query, fragment |-> fragment]

\* generate_authority with the ':' pushed whether or not there is a port
generate_authority_always_colon(self) ==
    LET a1 == IF IsSome(self.userinfo)
              THEN self.userinfo[1] \o <<"@">>
              ELSE <<>>
        a2 == (a1 \o self.host) \o <<":">>
    IN  IF IsSome(self.port) THEN a2 \o FormatU16(self.port[1]) ELSE a2

\* Uri::generate_authority
generate_authority(self) ==
    LET a0 == <<>>
        a1 == IF IsSome(self.userinfo)
              THEN (a0 \o self.userinfo[1]) \o <<"@">>
              ELSE a0
        a2 == a1 \o self.host
        a3 == IF IsSome(self.port)
              THEN (a2 \o <<":">>) \o FormatU16(self.port[1])
              ELSE a2
    IN  a3

\* from_str_tail looking for the query in the whole rest, before the
\* fragment is cut off
from_str_tail_query_first(scheme, userinfo, host, port, rest3) ==
    LET hasQuery == Len(rest3) >= 1 /\ Contains(rest3, <<"?">>)
        qparts == RSplitN2(rest3, <<"?">>)
        query == IF hasQuery THEN Some(qparts[1]) ELSE None
        rest4 == IF hasQuery THEN qparts[2] ELSE rest3
        hasFrag == Len(rest3) >= 1 /\ Contains(rest4, <<"#">>)
        fparts == RSplitN2(rest4, <<"#">>)
        fragment == IF hasFrag THEN Some(fparts[1]) ELSE None
        rest5 == IF hasFrag THEN fparts[2] ELSE rest4
        path == IF Len(rest5) < 1 THEN None ELSE Some(rest5)
    IN  Ok(Uri(scheme, userinfo, host, port, path, query, fragment))

\* the statements of Uri::from_str after host, port and rest are known
\* (fragment, query, path and the construction of the record)
from_str_tail(scheme, userinfo, host, port, rest3) ==
    LET hasFrag == Len(rest3) >= 1 /\ Contains(rest3, <<"#">>)
        fparts == RSplitN2(rest3, <<"#">>)
        fragment == IF hasFrag THEN Some(fparts[1]) ELSE None
        rest4 == IF hasFrag THEN fparts[2] ELSE rest3
        hasQuery == Len(rest3) >= 1 /\ Contains(rest4, <<"?">>)
        qparts == RSplitN2(rest4, <<"?">>)
        query == IF hasQuery THEN Some(qparts[1]) ELSE None
        rest5 == IF hasQuery THEN qparts[2] ELSE rest4
        path == IF Len(rest5) < 1 THEN None ELSE Some(rest5)
    IN  Ok(Uri(scheme, userinfo, host, port, path, query, fragment))

\* Uri::from_str, the scheme: <<scheme, rest>>
split_scheme(input) ==
    IF Contains(input, <<":", "/", "/">>)
    THEN LET parts == SplitN2(input, <<":", "/", "/">>)
         IN  <<Some(parts[1]), parts[2]>>
    ELSE <<None, input>>

\* strip_network_path dropping one character instead of two
strip_network_path_one(scheme, rest) ==
    IF scheme = None /\ StartsWith(rest, <<"/", "/">>)
    THEN DropFirst(rest, 1)
    ELSE rest

\* Uri::from_str, a text that starts with // and has no scheme: the rest
strip_network_path(scheme, rest) ==
    IF scheme = None /\ StartsWith(rest, <<"/", "/">>)
    THEN DropFirst(rest, 2)
    ELSE rest

\* Uri::from_str, the user information: <<userinfo, rest>>
split_userinfo(rest) ==
    IF Contains(rest, <<"@">>)
    THEN LET parts == SplitN2(rest, <<"@">>)
         IN  <<Some(parts[1]), parts[2]>>
    ELSE <<None, rest>>

\* Uri::from_str
from_str(input) ==
    LET s == split_scheme(input)
        scheme == s[1]
        rest1 == strip_network_path(scheme, s[2])
        u == split_userinfo(rest1)
        userinfo == u[1]
        rest2 == u[2]
    IN  IF Contains(rest2, <<":">>)
        THEN LET parts == SplitN2(rest2, <<":">>)
                 other_parts == SplitN2(parts[2], <<"/">>)
                 parsed == ParseU16(other_parts[1])
             IN  IF ~parsed.ok
                 THEN Panic("unwrap")
                 ELSE IF Len(other_parts) < 2
                      THEN Panic("index")
                      ELSE from_str_tail(scheme, userinfo, parts[1],
                                         Some(parsed.value), other_parts[2])
        ELSE IF Contains(rest2, <<"/">>)
             THEN LET parts == SplitN2(rest2, <<"/">>)
                  IN  from_str_tail(scheme, userinfo, parts[1], None, parts[2])
             ELSE from_str_tail(scheme, userinfo, rest2, None, <<>>)

AsciiLetters ==
    {"a", "b", "c", "d", "e", "f", "g", "h", "i", "j", "k", "l", "m",
     "n", "o", "p", "q", "r", "s", "t", "u", "v", "w", "x", "y", "z",
     "A", "B", "C", "D", "E", "F", "G", "H", "I", "J", "K", "L", "M",
     "N", "O", "P", "Q", "R", "S", "T", "U", "V", "W", "X", "Y", "Z"}

\* characters outside ASCII, named by code point: a letter and a symbol
NonAsciiLetters == {"U+00E9"}

NonAsciiChars == NonAsciiLetters \cup {"U+20AC"}

\* str::is_ascii
is_ascii(s) == \A k \in 1..Len(s) : s[k] \notin NonAsciiChars

\* char::is_alphabetic
is_alphabetic(c) == c \in AsciiLetters \cup NonAsciiLetters

\* Uri::validate_scheme: Ok(self), or the panic
validate_scheme(self) ==
    IF IsSome(self.scheme)
    THEN IF ~is_ascii(self.scheme[1])
         THEN Panic("is not ASCII and thus not a valid scheme")
         ELSE IF \E k \in 1..Len(self.scheme[1]) :
                     ~is_alphabetic(self.scheme[1][k])
              THEN Panic("is not valid in a URI scheme")
              ELSE Ok(self)
    ELSE Ok(self)

\* Vec::contains
VecContains(vec, x) == \E i \in 1..Len(vec) : vec[i] = x

\* Uri::validate_scheme_one_of: Ok(self), or the panic
validate_scheme_one_of(self, allowed_schemes) ==
    IF IsSome(self.scheme)
    THEN IF ~VecContains(allowed_schemes, self.scheme[1])
         THEN Panic("is not in the set of allowed schemes")
         ELSE Ok(self)
    ELSE Ok(self)

(***************************************************************************)
(* The callers' inputs.                                                     *)
(***************************************************************************)
Tokens ==
    {<<"a">>, <<"0">>, <<":">>, <<"/">>, <<"@">>, <<"?">>, <<"#">>,
     <<":", "/", "/">>, <<"6", "5", "5", "3", "5">>, <<"6", "5", "5", "3", "6">>}

\* every text made of at most n tokens
Inputs(n) == {Concat(ts) : ts \in StrsUpTo(Tokens, n)}

\* the characters of schemes and of hosts: letters
NameChars == {"a", "b"}

\* the characters of paths: a letter and the delimiters RFC 3986 allows in
\* a path ('/' between segments, ':' and '@' inside them)
PathChars == {"a", "/", ":", "@"}

\* every non-empty text of at most n of these characters
Texts(chars, n) == StrsUpTo(chars, n) \ {<<>>}

\* scheme + "://" + host + "/" + path
AbsoluteText(scheme, host, path) ==
    Concat(<<scheme, <<":", "/", "/">>, host, <<"/">>, path>>)

\* the absolute URIs scheme://host/path with parts of at most n characters
AbsoluteInputs(n) ==
    {AbsoluteText(s, h, p) :
        s \in Texts(NameChars, n),
        h \in Texts(NameChars, n),
        p \in Texts(PathChars, n)}

(***************************************************************************)
(* UriBuilder::new                                                          *)
(***************************************************************************)
UriBuilder_new == Uri(None, None, <<>>, None, None, None, None)

(***************************************************************************)
(* The UriBuilder methods: each returns the builder's fields after it.      *)
(***************************************************************************)
\* UriBuilder::add_scheme
add_scheme(self, scheme) == [self EXCEPT !.scheme = Some(scheme)]

\* UriBuilder::add_userinfo; password is an Option
add_userinfo(self, username, password) ==
    [self EXCEPT !.userinfo =
        Some(IF IsSome(password)
             THEN (username \o <<":">>) \o password[1]
             ELSE username)]

\* UriBuilder::add_host
add_host(self, host) == [self EXCEPT !.host = host]

\* UriBuilder::add_port
add_port(self, port) == [self EXCEPT !.port = Some(port)]

\* UriBuilder::add_path
add_path(self, path) ==
    [self EXCEPT !.path =
        Some(IF StartsWith(path, <<"/">>) THEN DropFirst(path, 1) ELSE path)]

\* UriBuilder::add_query_string
add_query_string(self, query) == [self EXCEPT !.query = Some(query)]

\* format!("{}={}", key, value)
format_pair(key, value) == (key \o <<"=">>) \o value

\* query_loop pushing the '&' before every pair, the first included
RECURSIVE query_loop_always_amp(_, _)
query_loop_always_amp(query, pairs) ==
    IF pairs = <<>> THEN query
    ELSE query_loop_always_amp(
             (query \o <<"&">>) \o format_pair(pairs[1][1], pairs[1][2]),
             Tail(pairs))

\* the loop of add_query_list and of add_query_map: query after the pairs
\* that are left, each a <<key, value>>, were visited in order
RECURSIVE query_loop(_, _)
query_loop(query, pairs) ==
    IF pairs = <<>> THEN query
    ELSE LET sep == IF Len(query) > 0 THEN query \o <<"&">> ELSE query
         IN  query_loop(sep \o format_pair(pairs[1][1], pairs[1][2]), Tail(pairs))

\* UriBuilder::add_query_map; visited is the order in which the HashMap's
\* iterator yields the entries of query_map
add_query_map(self, visited) ==
    [self EXCEPT !.query = Some(query_loop(<<>>, visited))]

\* UriBuilder::add_query_list
add_query_list(self, query_list) ==
    [self EXCEPT !.query = Some(query_loop(<<>>, query_list))]

\* finalize that forgets to copy the port
finalize_without_port(self) ==
    Uri(self.scheme, self.userinfo, self.host, None, self.path,
        self.query, self.fragment)

\* UriBuilder::finalize
finalize(self) ==
    Uri(self.scheme, self.userinfo, self.host, self.port, self.path,
        self.query, self.fragment)

(***************************************************************************)
(* Calls of the decomposer and of the authority generator.                  *)
(***************************************************************************)
Idle ==
    /\ text = <<>>
    /\ result = NotCalled
    /\ uri = None
    /\ authority = None
    /\ netpath = NotCalled
    /\ allowed = <<>>
    /\ validation = NotValidated
    /\ builder = UriBuilder_new
    /\ calls = <<>>
    /\ built = None

\* let uri = Uri::from_str(text);
FromStr ==
    /\ result = NotCalled
    /\ authority = None
    /\ result' = from_str(text)
    /\ uri' = IF result'.kind = "ok" THEN Some(result'.value) ELSE None
    /\ UNCHANGED <<text, authority, netpath, allowed, validation,
                   builder, calls, built>>

\* Uri::from_str("//" + text)
FromStrNetworkPath ==
    /\ netpath = NotCalled
    /\ authority = None
    /\ netpath' = from_str(<<"/", "/">> \o text)
    /\ UNCHANGED <<text, result, uri, authority, allowed, validation,
                   builder, calls, built>>

\* uri.generate_authority()
GenerateAuthority ==
    /\ IsSome(uri)
    /\ authority = None
    /\ netpath = NotCalled
    /\ authority' = Some(generate_authority(uri[1]))
    /\ UNCHANGED <<text, result, uri, netpath, allowed, validation,
                   builder, calls, built>>

\* Uri::from_str(&uri.generate_authority())
FromStrAuthority ==
    /\ IsSome(authority)
    /\ result = NotCalled
    /\ text' = authority[1]
    /\ result' = from_str(authority[1])
    /\ UNCHANGED <<uri, authority, netpath, allowed, validation,
                   builder, calls, built>>

InitParse ==
    /\ text \in Inputs(MaxTokens)
    /\ result = NotCalled
    /\ uri = None
    /\ authority = None
    /\ netpath = NotCalled
    /\ allowed = <<>>
    /\ validation = NotValidated
    /\ builder = UriBuilder_new
    /\ calls = <<>>
    /\ built = None

NextParse == FromStr \/ GenerateAuthority \/ FromStrNetworkPath

\* from_str on arbitrary text, then generate_authority on the record, or
\* from_str on the same text after "//"
SpecParse == InitParse /\ [][NextParse]_vars

InitAbsolute ==
    /\ text \in AbsoluteInputs(MaxPartLen)
    /\ result = NotCalled
    /\ uri = None
    /\ authority = None
    /\ netpath = NotCalled
    /\ allowed = <<>>
    /\ validation = NotValidated
    /\ builder = UriBuilder_new
    /\ calls = <<>>
    /\ built = None

NextAbsolute == FromStr \/ GenerateAuthority

\* from_str on absolute URIs of the form scheme://host/path
SpecAbsolute == InitAbsolute /\ [][NextAbsolute]_vars

(***************************************************************************)
(* generate_authority on a record, and from_str on what it returned.        *)
(***************************************************************************)
UserChars == {"a", ":", "@"}

HostChars == {"a", ":", "/", "@"}

PortSamples == {0, 7, 10, 80, 444, 9999, 10000, 65535}

OptionOf(S) == {None} \cup {Some(x) : x \in S}

\* records that differ in what the authority is made of; the other fields
\* are all absent or all present
AuthorityRecords(nu, nh) ==
    {Uri(o, u, h, p, o, o, o) :
        o \in {None, Some(<<"a">>)},
        u \in OptionOf(StrsUpTo(UserChars, nu)),
        h \in StrsUpTo(HostChars, nh),
        p \in OptionOf(PortSamples)}

InitAuthority ==
    /\ text = <<>>
    /\ result = NotCalled
    /\ uri \in {Some(r) : r \in AuthorityRecords(MaxUserLen, MaxHostLen)}
    /\ authority = None
    /\ netpath = NotCalled
    /\ allowed = <<>>
    /\ validation = NotValidated
    /\ builder = UriBuilder_new
    /\ calls = <<>>
    /\ built = None

NextAuthority == GenerateAuthority \/ FromStrAuthority

SpecAuthority == InitAuthority /\ [][NextAuthority]_vars

(***************************************************************************)
(* The scheme validators on a record.                                       *)
(***************************************************************************)
SchemeChars == {"a", "A", "0", "+", "U+00E9"}

\* records that differ in their scheme; the other fields are all absent
\* (and the host empty) or all present
SchemeRecords(n) ==
    {Uri(s, None, <<>>, None, None, None, None) :
        s \in OptionOf(StrsUpTo(SchemeChars, n))}
    \cup
    {Uri(s, Some(<<"a">>), <<"a">>, Some(80), Some(<<"a">>), Some(<<"a">>),
         Some(<<"a">>)) :
        s \in OptionOf(StrsUpTo(SchemeChars, n))}

AllowedSchemes == {<<"a">>, <<"A">>, <<"a", "A">>, <<"a", "+">>}

\* the allow-lists a caller passes: at most two schemes
AllowLists == StrsUpTo(AllowedSchemes, 2)

\* uri.validate_scheme()
ValidateScheme ==
    /\ IsSome(uri)
    /\ validation.out.kind # "panic"
    /\ validation' = [by |-> "validate_scheme", out |-> validate_scheme(uri[1])]
    /\ UNCHANGED <<text, result, uri, authority, netpath, allowed,
                   builder, calls, built>>

\* uri.validate_scheme_one_of(allowed_schemes)
ValidateSchemeOneOf ==
    /\ IsSome(uri)
    /\ validation.out.kind # "panic"
    /\ \E allowed_schemes \in AllowLists :
          /\ allowed' = allowed_schemes
          /\ validation' = [by |-> "validate_scheme_one_of",
                            out |-> validate_scheme_one_of(uri[1], allowed_schemes)]
    /\ UNCHANGED <<text, result, uri, authority, netpath,
                   builder, calls, built>>

InitValidate ==
    /\ text = <<>>
    /\ result = NotCalled
    /\ uri \in {Some(r) : r \in SchemeRecords(MaxSchemeLen)}
    /\ authority = None
    /\ netpath = NotCalled
    /\ allowed = <<>>
    /\ validation = NotValidated
    /\ builder = UriBuilder_new
    /\ calls = <<>>
    /\ built = None

NextValidate == ValidateScheme \/ ValidateSchemeOneOf

SpecValidate == InitValidate /\ [][NextValidate]_vars

(***************************************************************************)
(* Calls on a UriBuilder.  calls records each call and its arguments.       *)
(***************************************************************************)
SchemeArgs == {<<"a">>, <<"b">>}

UserinfoArgs == {<<<<"a">>, None>>, <<<<"a">>, Some(<<"b">>)>>}

HostArgs == {<<"a">>, <<"b">>}

PortArgs == {0, 80}

PathArgs == {<<"/", "a">>, <<"a">>, <<"/", "/", "a">>}

QueryArgs == {<<"a", "=", "1">>, <<>>}

\* the HashMaps a caller passes, as sets of <<key, value>> with distinct keys
QueryMaps == {{}, {<<<<"a">>, <<"1">>>>, <<<<"b">>, <<"2">>>>}}

\* the orders in which an iterator can yield the entries of a HashMap
Orders(m) ==
    {o \in [1..Cardinality(m) -> m] :
        \A i, j \in 1..Cardinality(m) : o[i] = o[j] => i = j}

QueryListArgs == {<<>>, <<<<<<"a">>, <<"1">>>>, <<<<"b">>, <<"2">>>>>>}

Keys == {<<"a">>, <<"b">>, <<>>}

Values == {<<"1">>, <<>>, <<"&">>}

Pairs == {<<k, v>> : k \in Keys, v \in Values}

\* every list of at most n pairs
QueryLists(n) == StrsUpTo(Pairs, n)

Called(call) ==
    /\ Len(calls) < MaxCalls
    /\ calls' = Append(calls, call)
    /\ UNCHANGED <<text, result, uri, authority, netpath, allowed, validation>>

AddScheme ==
    \E scheme \in SchemeArgs :
        /\ builder' = add_scheme(builder, scheme)
        /\ Called(<<"add_scheme", scheme>>)
        /\ UNCHANGED built

AddUserinfo ==
    \E a \in UserinfoArgs :
        /\ builder' = add_userinfo(builder, a[1], a[2])
        /\ Called(<<"add_userinfo", a[1], a[2]>>)
        /\ UNCHANGED built

AddHost ==
    \E host \in HostArgs :
        /\ builder' = add_host(builder, host)
        /\ Called(<<"add_host", host>>)
        /\ UNCHANGED built

AddPort ==
    \E port \in PortArgs :
        /\ builder' = add_port(builder, port)
        /\ Called(<<"add_port", port>>)
        /\ UNCHANGED built

AddPath ==
    \E path \in PathArgs :
        /\ builder' = add_path(builder, path)
        /\ Called(<<"add_path", path>>)
        /\ UNCHANGED built

AddQueryString ==
    \E query \in QueryArgs :
        /\ builder' = add_query_string(builder, query)
        /\ Called(<<"add_query_string", query>>)
        /\ UNCHANGED built

AddQueryMap ==
    \E query_map \in QueryMaps :
        \E visited \in Orders(query_map) :
            /\ builder' = add_query_map(builder, visited)
            /\ Called(<<"add_query_map", query_map>>)
            /\ UNCHANGED built

AddQueryList(query_list) ==
    /\ builder' = add_query_list(builder, query_list)
    /\ Called(<<"add_query_list", query_list>>)
    /\ UNCHANGED built

AddSomeQueryList == \E query_list \in QueryListArgs : AddQueryList(query_list)

Finalize ==
    /\ built' = Some(finalize(builder))
    /\ Called(<<"finalize">>)
    /\ UNCHANGED builder

InitBuilder == Idle

NextBuilder ==
    \/ AddScheme
    \/ AddUserinfo
    \/ AddHost
    \/ AddPort
    \/ AddPath
    \/ AddQueryString
    \/ AddQueryMap
    \/ AddSomeQueryList
    \/ Finalize

\* any calls, in any order, on a new UriBuilder
SpecBuilder == InitBuilder /\ [][NextBuilder]_vars

\* the first setter called is add_query_list, with any list of pairs
AddAnyQueryList ==
    /\ calls = <<>>
    /\ \E query_list \in QueryLists(MaxPairs) : AddQueryList(query_list)

InitQueryList == Idle

NextQueryList == AddAnyQueryList \/ Finalize

\* add_query_list on a new UriBuilder, then finalize
SpecQueryList == InitQueryList /\ [][NextQueryList]_vars

(***************************************************************************)
(* The parts of a text as the specification names them.                     *)
(***************************************************************************)
\* the text after the scheme marker: after the first "://", else after a
\* leading "//", else the whole text
AfterSchemeMarker(t) ==
    IF Contains(t, <<":", "/", "/">>)
    THEN SubSeq(t, FirstIndex(t, <<":", "/", "/">>) + 3, Len(t))
    ELSE IF Len(t) >= 2 /\ t[1] = "/" /\ t[2] = "/"
         THEN SubSeq(t, 3, Len(t))
         ELSE t

\* s up to, not including, its first c (all of s when c does not occur)
Before(s, c) ==
    IF \E i \in 1..Len(s) : s[i] = c
    THEN SubSeq(s, 1, (CHOOSE i \in 1..Len(s) :
                          s[i] = c /\ \A j \in 1..(i - 1) : s[j] # c) - 1)
    ELSE s

\* s after its first c (s contains c)
After(s, c) == SubSeq(s, Len(Before(s, c)) + 2, Len(s))

\* s holds the character c
Has(s, c) == \E i \in 1..Len(s) : s[i] = c

\* the authority substring: after the scheme marker, up to the '/' that
\* starts the path or the end of the text
AuthorityPart(t) == Before(AfterSchemeMarker(t), "/")

\* the host part: the text after the scheme marker and after the first '@'
HostPart(t) ==
    LET r == AfterSchemeMarker(t)
    IN  IF Has(r, "@") THEN After(r, "@") ELSE r

\* the text between the first ':' of the host part and the following '/'
PortText(t) == Before(After(HostPart(t), ":"), "/")

\* a decimal number that fits 16 unsigned bits
IsDecimalU16(s) ==
    /\ s # <<>>
    /\ \A k \in 1..Len(s) : IsDigit(s[k])
    /\ DecimalValue(s) <= U16Max

\* the host part holds a ':' and what follows it is no such number
MalformedPort(t) == Has(HostPart(t), ":") /\ ~IsDecimalU16(PortText(t))

\* a text of the form host + "/" + path that holds no "://"
IsSchemeless(t) == Has(t, "/") /\ ~Contains(t, <<":", "/", "/">>)

\* a record that has only a host (without ':', '/' and '@') and a port
HostAndPortOnly(r) ==
    /\ r.scheme = None /\ r.userinfo = None /\ r.path = None
    /\ r.query = None /\ r.fragment = None
    /\ r.host # <<>>
    /\ ~Has(r.host, ":") /\ ~Has(r.host, "/") /\ ~Has(r.host, "@")
    /\ IsSome(r.port)

(***************************************************************************)
(* The authority text of a record, as the specification words it.          *)
(***************************************************************************)
\* ds is the decimal numeral of n: digits only, no leading zero
IsNumeralOf(ds, n) ==
    /\ ds # <<>>
    /\ \A k \in 1..Len(ds) : IsDigit(ds[k])
    /\ (Len(ds) > 1 => ds[1] # "0")
    /\ DecimalValue(ds) = n

\* a is userinfo '@' host ':' port, each separator with its component only
IsAuthorityOf(a, r) ==
    LET nuser == IF IsSome(r.userinfo) THEN Len(r.userinfo[1]) + 1 ELSE 0
        nhost == Len(r.host)
    IN  /\ Len(a) >= nuser + nhost
        /\ IsSome(r.userinfo) =>
              /\ SubSeq(a, 1, nuser - 1) = r.userinfo[1]
              /\ a[nuser] = "@"
        /\ SubSeq(a, nuser + 1, nuser + nhost) = r.host
        /\ IsSome(r.port) =>
              /\ Len(a) > nuser + nhost + 1
              /\ a[nuser + nhost + 1] = ":"
              /\ IsNumeralOf(SubSeq(a, nuser + nhost + 2, Len(a)), r.port[1])
        /\ r.port = None => Len(a) = nuser + nhost

(***************************************************************************)
(* The checks of the two validators, as the specification words them.       *)
(***************************************************************************)
\* no character of the scheme is outside the ASCII alphabetic range
CharsetCheckPasses(r) ==
    r.scheme = None \/ \A k \in 1..Len(r.scheme[1]) : r.scheme[1][k] \in AsciiLetters

\* the scheme is, exactly, a member of the allow-list
AllowListCheckPasses(r, list) ==
    r.scheme = None \/ \E i \in 1..Len(list) : list[i] = r.scheme[1]

\* the check of the validator that was called passes on the record
CheckPasses ==
    IF validation.by = "validate_scheme"
    THEN CharsetCheckPasses(uri[1])
    ELSE AllowListCheckPasses(uri[1], allowed)

(***************************************************************************)
(* What each UriBuilder setter stores, as the specification words it.       *)
(***************************************************************************)
\* the pairs rendered as key=value and joined with one '&' between
\* consecutive pairs
RECURSIVE JoinPairs(_)
JoinPairs(pairs) ==
    IF pairs = <<>> THEN <<>>
    ELSE LET first == Concat(<<pairs[1][1], <<"=">>, pairs[1][2]>>)
         IN  IF Len(pairs) = 1 THEN first
             ELSE Concat(<<first, <<"&">>, JoinPairs(Tail(pairs))>>)

\* the fields of UriBuilder and of Uri
Fields == {"scheme", "userinfo", "host", "port", "path", "query", "fragment"}

\* the field a setter is for
FieldOf(call) ==
    CASE call[1] = "add_scheme" -> "scheme"
      [] call[1] = "add_userinfo" -> "userinfo"
      [] call[1] = "add_host" -> "host"
      [] call[1] = "add_port" -> "port"
      [] call[1] = "add_path" -> "path"
      [] call[1] \in {"add_query_string", "add_query_map", "add_query_list"} -> "query"
      [] OTHER -> "none"

\* the values a setter call may store in its field
StoredBy(call) ==
    CASE call[1] = "add_scheme" -> {Some(call[2])}
      [] call[1] = "add_userinfo" ->
            {Some(IF call[3] = None THEN call[2]
                  ELSE Concat(<<call[2], <<":">>, call[3][1]>>))}
      [] call[1] = "add_host" -> {call[2]}
      [] call[1] = "add_port" -> {Some(call[2])}
      [] call[1] = "add_path" ->
            {Some(IF Len(call[2]) > 0 /\ call[2][1] = "/"
                  THEN Tail(call[2]) ELSE call[2])}
      [] call[1] = "add_query_string" -> {Some(call[2])}
      [] call[1] = "add_query_map" ->
            {Some(JoinPairs(o)) : o \in Orders(call[2])}
      [] call[1] = "add_query_list" -> {Some(JoinPairs(call[2]))}

\* the field of a builder nobody set
DefaultOf(f) == IF f = "host" THEN <<>> ELSE None

\* the positions in cs of the setter calls for field f
SettersOf(cs, f) == {i \in 1..Len(cs) : FieldOf(cs[i]) = f}

\* value v of field f is what the most recent setter for f in cs stored,
\* or the default when cs holds no setter for f
HoldsLatest(cs, f, v) ==
    IF SettersOf(cs, f) = {} THEN v = DefaultOf(f)
    ELSE LET last == CHOOSE i \in SettersOf(cs, f) :
                         \A j \in SettersOf(cs, f) : j <= i
         IN  v \in StoredBy(cs[last])

\* the remainder after the host/port step: what follows the '/' that ends
\* the port when the host part holds a ':', else what follows the first
\* '/' of the host part, else nothing
Remainder(t) ==
    LET h == HostPart(t)
    IN  IF Has(h, ":") THEN After(After(h, ":"), "/")
        ELSE IF Has(h, "/") THEN After(h, "/")
        ELSE <<>>

\* the position of the last c in s (s holds c)
LastPos(s, c) ==
    CHOOSE i \in 1..Len(s) : s[i] = c /\ \A j \in (i + 1)..Len(s) : s[j] # c

\* s after its last c, and s before it (s holds c)
AfterLast(s, c) == SubSeq(s, LastPos(s, c) + 1, Len(s))

BeforeLast(s, c) == SubSeq(s, 1, LastPos(s, c) - 1)

\* s without its fragment and the '#' before it
WithoutFragment(s) == IF Has(s, "#") THEN BeforeLast(s, "#") ELSE s

\* s holds a '?', and every '?' of s lies after the last '#' of s
QueryMarksOnlyInFragment(s) ==
    /\ Has(s, "#")
    /\ Has(s, "?")
    /\ \A i \in 1..Len(s) : s[i] = "?" => i > LastPos(s, "#")

(***************************************************************************)
(* The claims.                                                              *)
(***************************************************************************)

(***************************************************************************)
(* C1: whenever the text between the first ':' of the host part and the     *)
(* following '/' is not a decimal number that fits 16 unsigned bits,        *)
(* from_str returns a parse error to its caller: it neither panics nor      *)
(* returns a record.  The code panics (unwrap of the failed parse).         *)
(***************************************************************************)
C1_MalformedPortIsReturnedAsError ==
    (result.kind # "none" /\ MalformedPort(text))
        => (result.kind # "panic" /\ result.kind # "ok")

(***************************************************************************)
(* C2: for a record that has only a host (non-empty, without ':', '/' and   *)
(* '@') and a port, from_str of generate_authority(record) returns a record *)
(* with the same host and the same port.  The code panics: nothing follows  *)
(* the port, and it indexes the part after the '/'.                         *)
(***************************************************************************)
C2_AuthorityRedecomposes ==
    (IsSome(uri) /\ HostAndPortOnly(uri[1]) /\ result.kind # "none")
        => /\ result.kind = "ok"
           /\ result.value.host = uri[1].host
           /\ result.value.port = uri[1].port

(***************************************************************************)
(* C3: whenever from_str succeeds, generate_authority of its record is the  *)
(* authority substring of the input, character for character.               *)
(***************************************************************************)
C3_AuthorityRoundTrip ==
    (result.kind = "ok" /\ IsSome(authority))
        => authority[1] = AuthorityPart(text)

(***************************************************************************)
(* C4: for every text scheme + "://" + host + "/" + path with scheme, host  *)
(* and path non-empty and no '/' in host, from_str returns a record with    *)
(* that scheme, host and path and with userinfo, port, query and fragment   *)
(* absent.                                                                  *)
(***************************************************************************)
C4_AbsoluteUriFields ==
    result.kind # "none" =>
        \A s \in Texts(NameChars, MaxPartLen),
           h \in Texts(NameChars, MaxPartLen),
           p \in Texts(PathChars, MaxPartLen) :
            text = AbsoluteText(s, h, p)
                => result = Ok(Uri(Some(s), None, h, None, Some(p), None, None))

(***************************************************************************)
(* C5, as claimed: for every schemeless text t of the form host/path,       *)
(* from_str("//" + t) ends as from_str(t) does, with an equal record.       *)
(***************************************************************************)
C5_NetworkPathSameAsSchemeless ==
    (IsSchemeless(text) /\ result.kind # "none" /\ netpath.kind # "none")
        => netpath = result

(***************************************************************************)
(* C5, amended: for every schemeless text t of the form host/path that      *)
(* does not itself begin with "//", from_str("//" + t) ends as from_str(t)  *)
(* does: with an equal record, whose scheme is absent, or with the same     *)
(* panic.                                                                   *)
(***************************************************************************)
C5_NetworkPathSameUnlessDoubled ==
    (/\ IsSchemeless(text)
     /\ ~StartsWith(text, <<"/", "/">>)
     /\ result.kind # "none" /\ netpath.kind # "none")
        => /\ netpath = result
           /\ netpath.kind = "ok" => netpath.value.scheme = None

\* a text such as "a:0/" and the same text after "//" were both decomposed
\* into a record with a host and a port
C5_Witness ==
    /\ IsSchemeless(text)
    /\ ~StartsWith(text, <<"/", "/">>)
    /\ result.kind = "ok" /\ netpath.kind = "ok"
    /\ IsSome(result.value.port)
    /\ result.value.host # <<>>

(***************************************************************************)
(* C6: a validator returns the record, unchanged, when the                  *)
(* scheme is absent or passes the check; when the check fails it reports a  *)
(* validation error value to the caller and does not crash.                 *)
(***************************************************************************)
C6_ValidatorsReturnErrors ==
    validation.by # "none" =>
        /\ CheckPasses => validation.out = Ok(uri[1])
        /\ ~CheckPasses => (validation.out.kind # "panic" /\ validation.out.kind # "ok")

(***************************************************************************)
(* C7: userinfo is present only if an '@' occurs inside the authority part; *)
(* an '@' found only after the '/' that starts the path leaves userinfo     *)
(* absent and the host what it is without that '@'.                         *)
(***************************************************************************)
C7_UserinfoOnlyFromAuthority ==
    (result.kind = "ok" /\ ~Has(AuthorityPart(text), "@"))
        => /\ result.value.userinfo = None
           /\ result.value.host = Before(AuthorityPart(text), ":")

(***************************************************************************)
(* C8: generate_authority returns userinfo + "@" (only when userinfo is     *)
(* present), then host, then ":" + the port in decimal (only when port is   *)
(* present): nothing follows the host when port is absent, nothing          *)
(* precedes it when userinfo is absent, and the record is not modified.     *)
(***************************************************************************)
C8_AuthorityShape ==
    [][(authority = None /\ authority' # None)
          => (uri' = uri /\ IsAuthorityOf(authority'[1], uri[1]))]_vars

\* an authority with userinfo and a port of several digits was generated
C8_Witness ==
    /\ IsSome(uri) /\ IsSome(authority)
    /\ IsSome(uri[1].userinfo) /\ uri[1].host # <<>>
    /\ IsSome(uri[1].port) /\ uri[1].port[1] >= 10000

(***************************************************************************)
(* C9: after any sequence of setter calls on a new UriBuilder each field    *)
(* holds what the most recent setter for it stored, host is empty when      *)
(* add_host was never called and every other field never set is absent;     *)
(* a setter changes only its own field; finalize returns a record with      *)
(* these fields and leaves the UriBuilder's fields unchanged.               *)
(***************************************************************************)
C9_BuilderFrame ==
    [][calls' # calls =>
        LET call == calls'[Len(calls')]
        IN  /\ \A f \in Fields : HoldsLatest(calls', f, builder'[f])
            /\ call[1] = "finalize" =>
                  /\ builder' = builder
                  /\ IsSome(built')
                  /\ \A f \in Fields : built'[1][f] = builder[f]
                  /\ \A f \in Fields : HoldsLatest(calls', f, built'[1][f])
            /\ call[1] # "finalize" =>
                  /\ built' = built
                  /\ \A f \in Fields \ {FieldOf(call)} : builder'[f] = builder[f]
    ]_vars

\* add_scheme was called twice with different schemes, then finalize: the
\* record holds the second scheme and an empty host
C9_Witness ==
    /\ Len(calls) = 3
    /\ calls[1][1] = "add_scheme" /\ calls[2][1] = "add_scheme"
    /\ calls[1][2] # calls[2][2]
    /\ calls[3][1] = "finalize"
    /\ IsSome(built) /\ built[1].scheme = Some(calls[2][2])
    /\ built[1].host = <<>>

(***************************************************************************)
(* C10: add_query_list followed by finalize yields a query equal to the     *)
(* pairs rendered as key=value and joined with '&' in the given order, one  *)
(* '&' between consecutive pairs and none leading or trailing.              *)
(***************************************************************************)
C10_QueryListJoined ==
    (/\ Len(calls) >= 2
     /\ calls[1][1] = "add_query_list"
     /\ calls[Len(calls)][1] = "finalize")
        => /\ IsSome(built)
           /\ built[1].query = Some(JoinPairs(calls[1][2]))

\* a list of three pairs, the first with an empty key and value, was joined
C10_Witness ==
    /\ Len(calls) = 2
    /\ calls[1][1] = "add_query_list" /\ Len(calls[1][2]) = 3
    /\ calls[1][2][1] = <<<<>>, <<>>>>
    /\ calls[2][1] = "finalize"
    /\ IsSome(built) /\ IsSome(built[1].query)
    /\ built[1].query[1][1] = "=" /\ built[1].query[1][2] = "&"

(***************************************************************************)
(* C11: when the remainder after the host/port step is non-empty, from_str  *)
(* sets fragment to the text after the last '#' of the remainder (absent    *)
(* without a '#'), query to the text after the last '?' of the remainder    *)
(* without its fragment and '#' (absent without such a '?'), and path to    *)
(* what is left before that '?' (absent when empty); a '?' after the last   *)
(* '#' stays in the fragment and gives no query.                            *)
(***************************************************************************)
C11_FragmentThenQueryThenPath ==
    (result.kind = "ok" /\ Remainder(text) # <<>>) =>
        LET r == Remainder(text)
            q == WithoutFragment(r)
            p == IF Has(q, "?") THEN BeforeLast(q, "?") ELSE q
        IN  /\ result.value.fragment =
                  IF Has(r, "#") THEN Some(AfterLast(r, "#")) ELSE None
            /\ result.value.query =
                  IF Has(q, "?") THEN Some(AfterLast(q, "?")) ELSE None
            /\ result.value.path = IF p = <<>> THEN None ELSE Some(p)
            /\ QueryMarksOnlyInFragment(r) =>
                  /\ result.value.query = None
                  /\ Has(result.value.fragment[1], "?")

\* a remainder such as "?#?" was split: its first '?' gave a query, its
\* second one stayed in the fragment
C11_Witness ==
    /\ result.kind = "ok"
    /\ Len(Remainder(text)) >= 3
    /\ IsSome(result.value.query)
    /\ IsSome(result.value.fragment)
    /\ Has(result.value.fragment[1], "?")

\* a remainder such as "#?" was split: its only '?' follows the '#', so
\* there is a fragment and no query
C11_WitnessNoQuery ==
    /\ result.kind = "ok"
    /\ QueryMarksOnlyInFragment(Remainder(text))
    /\ result.value.query = None

====
